---- MODULE Spec2Model ----
(***************************************************************************)
(* Model of RecoveryUI (src/ui.cpp): the key pipeline (process_key, the    *)
(* long-press timer, the default CheckKey policy), the key FIFO            *)
(* (EnqueueKey, CancelWaitKey, FlushKeys) and the foreground waiter        *)
(* (WaitKey, usb_connected, NotifyVolumesChanged / VolumesChanged).        *)
(***************************************************************************)
EXTENDS Integers, Sequences, FiniteSets, TLC

(***************************************************************************)
(* Program constants                                                       *)
(***************************************************************************)
\* linux/input.h key codes used by ui.cpp
KEY_POWER == 116
KEY_VOLUMEUP == 115
KEY_VOLUMEDOWN == 114
\* errno.h
ETIMEDOUT == 110
\* key_last_down / last_key / WaitKey's "no key" value
NO_KEY == -1
\* the value CancelWaitKey stores in the queue
CANCEL == -2
\* Device::kRefresh, the value WaitKey returns when the volumes changed
kRefresh == -7
\* UI_WAIT_KEY_TIMEOUT_SEC
UI_WAIT_KEY_TIMEOUT_SEC == 120
\* the number of power registrations that reboots / of alternations that mounts
\* linux/input.h, as used by input_callback and process_swipe
EV_SYN == 0
EV_KEY == 1
EV_REL == 2
EV_ABS == 3
SYN_REPORT == 0
SYN_MT_REPORT == 2
REL_X == 0
REL_Y == 1
ABS_MT_POSITION_X == 53
ABS_MT_POSITION_Y == 54
KEY_UP == 103
KEY_DOWN == 108
KEY_BACK == 158
BTN_TOUCH == 330
KEY_MAX == 767
\* the trackball threshold
REL_THRESHOLD == 3
\* the swipe thresholds the constructor sets; set_min_swipe_lengths keeps
\* them when ro.sf.lcd_density is not set
min_x_swipe_px == 100
min_y_swipe_px == 80
\* gr_fb_width(), gr_fb_height() and the maxima EVIOCGABS reports
fb_width == 1080
fb_height == 1920
abs_max_x == 4096
abs_max_y == 4096
\* the size of the fields array message_socket_client_event hands to
\* string_split
MAXFIELDS == 3
REBOOT_PRESSES == 7
MOUNT_PRESSES == 7

(***************************************************************************)
(* Bounds of the model                                                     *)
(***************************************************************************)
\* number of elements of key_queue (sizeof(key_queue)/sizeof(key_queue[0]))
queue_max == 2
\* down edges explored (key_down_count is an unbounded int in the code)
MaxDownCount == 4
\* long-press timer threads that may be pending at once
MaxTimers == 2
\* 1-second slices explored after `timeouts` has reached zero
MaxExtraSlices == 2
\* 1-second slices a WaitKey call may time out in while the other threads
\* run freely
MaxSlices == 2
\* the longest control-socket message, in symbols
MaxMsgLen == 7
\* position reports are fed while the accumulated displacement is within
\* this many pixels
MaxDiffPx == 1080

Keys == {KEY_POWER, KEY_VOLUMEUP, KEY_VOLUMEDOWN}
\* process_key's updown: 1 for a key down event, 0 for a key up event
UpDown == {0, 1}
\* what an int that the constructor never initialises may hold
UninitInt == {-1, 0, 1, 2}

IGNORE == "IGNORE"
TOGGLE == "TOGGLE"
REBOOT == "REBOOT"
ENQUEUE == "ENQUEUE"
MOUNT_SYSTEM == "MOUNT_SYSTEM"
NONE == "NONE"

VARIABLES
  \* RecoveryUI fields
  key_pressed,                  \* [Keys -> 0..1], under key_queue_mutex
  key_last_down,                \* code or -1
  key_long_press,               \* BOOLEAN
  key_down_count,               \* Nat
  consecutive_power_keys,
  consecutive_alternate_keys,
  last_key,
  key_queue,                    \* the live cells key_queue[0 .. key_queue_len-1]
  key_queue_len,
  v_changed,
  \* threads
  timers,                       \* pending time_key threads: [key_code, count]
  released,                     \* those of them whose key has gone up since
  long_calls,                   \* the threads that called KeyLongPress since
                                \* the last down edge
  pc,                           \* where the foreground thread is in WaitKey
  timeouts,                     \* WaitKey's local
  rc,                           \* WaitKey's local
  vc_ret,                       \* VolumesChanged's local `ret`
  wk_ret,                       \* what the last WaitKey call returned
  \* collaborators
  dialog,                       \* "none", "dismissable", "sticky"
  text_visible,
  rebooted,                     \* android_reboot was called
  usb,                          \* what the sysfs probe would report
  \* observations of the last operation
  oob_write,                    \* a store landed outside key_queue
  cond_signals,                 \* pthread_cond_signal calls of the last operation
  last_op,                      \* the last queue operation <<name, argument, tick>>
  last_ev,                      \* the last process_key call <<code, updown>>
  prev_ev,                      \* the process_key call before it
  last_reg,                     \* its outcome: [key, long, action] or none
  \* monitors of the event stream
  mon,                          \* the power-press scenarios
  chord,                        \* the chord A down, B down, B up, A up
  \* monitor of the pending WaitKey call
  wmon,                         \* what was called since it blocked
  \* the gesture recogniser and the trackball (input_callback)
  in_touch,
  touch_x, touch_y,
  old_x, old_y,
  diff_x, diff_y,
  max_x_touch, max_y_touch,
  mt_count,
  rel_sum,
  ev_pc,                        \* where the event thread is in input_callback
  last_in,                      \* the last input event <<type, code, value>>
  \* the control socket
  sock_in,                      \* what the client's next Read returns
  sock_calls                    \* the dialog calls of the last client event

vars == <<key_pressed, key_last_down, key_long_press, key_down_count,
          consecutive_power_keys, consecutive_alternate_keys, last_key,
          key_queue, key_queue_len, v_changed, timers, released, long_calls,
          pc, timeouts, rc,
          vc_ret, wk_ret, dialog, text_visible, rebooted, usb, oob_write,
          cond_signals, last_op, last_ev, prev_ev, last_reg, mon, chord, wmon,
          in_touch, touch_x, touch_y, old_x, old_y, diff_x, diff_y,
          max_x_touch, max_y_touch, mt_count, rel_sum, ev_pc, last_in,
          sock_in, sock_calls>>

keyVars == <<key_pressed, key_last_down, key_long_press, key_down_count, timers,
            released, long_calls>>
policyVars == <<consecutive_power_keys, consecutive_alternate_keys, last_key>>
queueVars == <<key_queue, key_queue_len, oob_write, cond_signals, last_op>>
obsVars == <<last_ev, prev_ev, last_reg, mon, chord>>
waitVars == <<pc, timeouts, rc, vc_ret, wk_ret, wmon>>
gestureVars == <<in_touch, touch_x, touch_y, old_x, old_y, diff_x, diff_y,
                 max_x_touch, max_y_touch, mt_count>>
inputVars == <<gestureVars, rel_sum, ev_pc, last_in>>
socketVars == <<sock_in, sock_calls>>

NoReg == [key |-> NO_KEY, long |-> FALSE, action |-> NONE]
NoEv == <<NO_KEY, 0>>
NoIn == <<-1, 0, 0>>
NoRead == [nread |-> -2, buf |-> <<>>]
MonOff == [phase |-> "off", n |-> 0, reboots |-> 0, enq |-> 0]
ChordOff == [st |-> 0, a |-> NO_KEY, b |-> NO_KEY, regs |-> <<>>]
\* Of the WaitKey call in progress or, between calls, of the last one.
\* cancelled: CancelWaitKey was called while the call was blocked on an empty
\* FIFO; flushed / again: FlushKeys / another CancelWaitKey ran after that;
\* notified: NotifyVolumesChanged ran while the call was pending.
WMonOff == [cancelled |-> FALSE, flushed |-> FALSE, again |-> FALSE,
            notified |-> FALSE]

Min(a, b) == IF a < b THEN a ELSE b

\* The foreground thread holds key_queue_mutex while it is inside
\* VolumesChanged (WaitKey calls it between the return of
\* pthread_cond_timedwait and the unlock).
MutexFree == pc \in {"idle", "wait"}

(***************************************************************************)
(* RecoveryUI::RecoveryUI: the initialiser list sets the fields below;     *)
(* key_pressed, v_changed and rel_sum are not in it and the body does not  *)
(* set them, so they start with whatever the storage holds.                *)
(***************************************************************************)
Init ==
  /\ key_pressed \in [Keys -> {0, 1}]
  /\ v_changed \in UninitInt
  /\ key_queue = <<>>
  /\ key_queue_len = 0
  /\ key_last_down = NO_KEY
  /\ key_long_press = FALSE
  /\ key_down_count = 0
  /\ consecutive_power_keys = 0
  /\ consecutive_alternate_keys = 0
  /\ last_key = NO_KEY
  /\ timers = {}
  /\ released = {}
  /\ long_calls = <<>>
  /\ pc = "idle"
  /\ timeouts = 0
  /\ rc = 0
  /\ vc_ret = 0
  /\ wk_ret = NO_KEY
  /\ dialog = "none"
  /\ text_visible = FALSE
  /\ rebooted = FALSE
  /\ usb \in BOOLEAN
  /\ oob_write = FALSE
  /\ cond_signals = 0
  /\ last_op = <<"none", 0, 0>>
  /\ last_ev = NoEv
  /\ prev_ev = NoEv
  /\ last_reg = NoReg
  /\ mon = [phase |-> "pw", n |-> 0, reboots |-> 0, enq |-> 0]
  /\ chord = ChordOff
  /\ wmon = WMonOff
  /\ in_touch = 0
  /\ touch_x = 0 /\ touch_y = 0
  /\ old_x = 0 /\ old_y = 0
  /\ diff_x = 0 /\ diff_y = 0
  /\ max_x_touch = 0 /\ max_y_touch = 0
  /\ mt_count = 0
  /\ rel_sum \in UninitInt
  /\ ev_pc = "idle"
  /\ last_in = NoIn
  /\ sock_in = NoRead
  /\ sock_calls = <<>>

(***************************************************************************)
(* The key FIFO                                                            *)
(***************************************************************************)
Tick == 1 - last_op[3]

\* mutant of EnqueueKey: the condition is signalled whether or not the code
\* was stored
EnqueueKeyAlwaysSignals(key_code) ==
  /\ last_op' = <<"enqueue", key_code, Tick>>
  /\ IF dialog # "none"
     THEN /\ dialog' = IF dialog = "dismissable" THEN "none" ELSE dialog
          /\ cond_signals' = 0
          /\ UNCHANGED <<key_queue, key_queue_len, oob_write>>
     ELSE /\ UNCHANGED dialog
          /\ cond_signals' = 1
          /\ IF key_queue_len < queue_max
             THEN /\ IF key_queue_len >= 0
                     THEN key_queue' = Append(key_queue, key_code) /\ UNCHANGED oob_write
                     ELSE oob_write' = TRUE /\ UNCHANGED key_queue
                  /\ key_queue_len' = key_queue_len + 1
             ELSE UNCHANGED <<key_queue, key_queue_len, oob_write>>

\* RecoveryUI::EnqueueKey.  A store at an index outside 0 .. queue_max-1
\* (possible only once key_queue_len has been corrupted) lands outside the
\* array.
EnqueueKey(key_code) ==
  /\ last_op' = <<"enqueue", key_code, Tick>>
  /\ IF dialog # "none"
     THEN /\ dialog' = IF dialog = "dismissable" THEN "none" ELSE dialog
          /\ cond_signals' = 0
          /\ UNCHANGED <<key_queue, key_queue_len, oob_write>>
     ELSE /\ UNCHANGED dialog
          /\ IF key_queue_len < queue_max
             THEN /\ IF key_queue_len >= 0
                     THEN key_queue' = Append(key_queue, key_code) /\ UNCHANGED oob_write
                     ELSE oob_write' = TRUE /\ UNCHANGED key_queue
                  /\ key_queue_len' = key_queue_len + 1
                  /\ cond_signals' = 1
             ELSE /\ cond_signals' = 0
                  /\ UNCHANGED <<key_queue, key_queue_len, oob_write>>

(***************************************************************************)
(* The default policy                                                      *)
(***************************************************************************)
\* mutant of IsKeyPressed: no key is ever reported as held
IsKeyPressedNever(pressed, key) == FALSE

\* RecoveryUI::IsKeyPressed
IsKeyPressed(pressed, key) == pressed[key] # 0

\* mutant of CheckKey: a registration of another key leaves the power
\* counter alone
CheckKeyNoReset(key, pressed, cp, ca, lk) ==
  IF IsKeyPressed(pressed, KEY_POWER) /\ key = KEY_VOLUMEUP
  THEN [action |-> TOGGLE, cp |-> cp, ca |-> ca, lk |-> lk]
  ELSE LET cp1 == IF key = KEY_POWER THEN cp + 1 ELSE cp
           alt == \/ key = KEY_VOLUMEUP /\ (lk = KEY_VOLUMEDOWN \/ lk = NO_KEY)
                  \/ key = KEY_VOLUMEDOWN /\ (lk = KEY_VOLUMEUP \/ lk = NO_KEY)
           ca1 == IF alt THEN ca + 1 ELSE 0
       IN IF key = KEY_POWER /\ cp1 >= REBOOT_PRESSES
          THEN [action |-> REBOOT, cp |-> cp1, ca |-> ca, lk |-> lk]
          ELSE IF alt /\ ca1 >= MOUNT_PRESSES
          THEN [action |-> MOUNT_SYSTEM, cp |-> cp1, ca |-> 0, lk |-> lk]
          ELSE [action |-> ENQUEUE, cp |-> cp1, ca |-> ca1, lk |-> key]

\* mutant of CheckKey: the power counter is compared with > instead of >=
CheckKeyOffByOne(key, pressed, cp, ca, lk) ==
  IF IsKeyPressed(pressed, KEY_POWER) /\ key = KEY_VOLUMEUP
  THEN [action |-> TOGGLE, cp |-> cp, ca |-> ca, lk |-> lk]
  ELSE LET cp1 == IF key = KEY_POWER THEN cp + 1 ELSE 0
           alt == \/ key = KEY_VOLUMEUP /\ (lk = KEY_VOLUMEDOWN \/ lk = NO_KEY)
                  \/ key = KEY_VOLUMEDOWN /\ (lk = KEY_VOLUMEUP \/ lk = NO_KEY)
           ca1 == IF alt THEN ca + 1 ELSE 0
       IN IF key = KEY_POWER /\ cp1 > REBOOT_PRESSES
          THEN [action |-> REBOOT, cp |-> cp1, ca |-> ca, lk |-> lk]
          ELSE IF alt /\ ca1 >= MOUNT_PRESSES
          THEN [action |-> MOUNT_SYSTEM, cp |-> cp1, ca |-> 0, lk |-> lk]
          ELSE [action |-> ENQUEUE, cp |-> cp1, ca |-> ca1, lk |-> key]

\* RecoveryUI::CheckKey: the action it returns and the policy state it leaves
CheckKey(key, pressed, cp, ca, lk) ==
  IF IsKeyPressed(pressed, KEY_POWER) /\ key = KEY_VOLUMEUP
  THEN [action |-> TOGGLE, cp |-> cp, ca |-> ca, lk |-> lk]
  ELSE LET cp1 == IF key = KEY_POWER THEN cp + 1 ELSE 0
           alt == \/ key = KEY_VOLUMEUP /\ (lk = KEY_VOLUMEDOWN \/ lk = NO_KEY)
                  \/ key = KEY_VOLUMEDOWN /\ (lk = KEY_VOLUMEUP \/ lk = NO_KEY)
           ca1 == IF alt THEN ca + 1 ELSE 0
       IN IF key = KEY_POWER /\ cp1 >= REBOOT_PRESSES
          THEN [action |-> REBOOT, cp |-> cp1, ca |-> ca, lk |-> lk]
          ELSE IF alt /\ ca1 >= MOUNT_PRESSES
          THEN [action |-> MOUNT_SYSTEM, cp |-> cp1, ca |-> 0, lk |-> lk]
          ELSE [action |-> ENQUEUE, cp |-> cp1, ca |-> ca1, lk |-> key]

(***************************************************************************)
(* Monitors of the stream of process_key calls                             *)
(***************************************************************************)
\* Follows the streams (down P, up P)^n and
\* (down P, up P)^6, down VD, up VD, (down P, up P)^n from the initial state,
\* counting the REBOOT and ENQUEUE actions taken on the way.
MonNext(m, code, updown, act) ==
  LET down == updown # 0
      power == /\ m.phase \in {"pw", "pw2"}
               /\ code = KEY_POWER
               /\ m.n < 2 * REBOOT_PRESSES
               /\ down = (m.n % 2 = 0)
      r == m.reboots + (IF act = REBOOT THEN 1 ELSE 0)
      e == m.enq + (IF act = ENQUEUE THEN 1 ELSE 0)
  IN IF power
     THEN [phase |-> m.phase, n |-> m.n + 1, reboots |-> r, enq |-> e]
     ELSE IF m.phase = "pw" /\ m.n = 2 * (REBOOT_PRESSES - 1)
             /\ code = KEY_VOLUMEDOWN /\ down
     THEN [phase |-> "vd", n |-> 0, reboots |-> r, enq |-> e]
     ELSE IF m.phase = "vd" /\ code = KEY_VOLUMEDOWN /\ ~down
     THEN [phase |-> "pw2", n |-> 0, reboots |-> r, enq |-> e]
     ELSE MonOff

\* Recognises the stream  A down, B down, B up, A up  (A # B) as a suffix of
\* the events so far: st is the number of its events seen, regs the codes
\* registered by them.
ChordNext(c, code, updown, registered) ==
  LET down == updown # 0
      r == IF registered THEN <<code>> ELSE <<>>
  IN IF down
     THEN IF c.st = 1 /\ code # c.a
          THEN [st |-> 2, a |-> c.a, b |-> code, regs |-> c.regs \o r]
          ELSE IF c.st = 2 /\ code # c.b
          THEN [st |-> 2, a |-> c.b, b |-> code, regs |-> r]
          ELSE [st |-> 1, a |-> code, b |-> NO_KEY, regs |-> r]
     ELSE IF c.st = 2 /\ code = c.b
          THEN [st |-> 3, a |-> c.a, b |-> c.b, regs |-> c.regs \o r]
          ELSE IF c.st = 3 /\ code = c.a
          THEN [st |-> 4, a |-> c.a, b |-> c.b, regs |-> c.regs \o r]
          ELSE ChordOff

(***************************************************************************)
(* The key pipeline                                                        *)
(***************************************************************************)
\* mutant of RegisterKey: every up edge registers its key
RegisterKeyAnyUp(key_code, updown, last_down) ==
  updown = 0

\* process_key's test under the lock: is this event the up edge that
\* registers the key?
RegisterKey(key_code, updown, last_down) ==
  updown = 0 /\ last_down = key_code

\* mutant of LastDownAfter: a down edge does not replace a key that is
\* already recorded as the last one down
LastDownFirstWins(key_code, updown, last_down) ==
  IF updown # 0
  THEN (IF last_down = NO_KEY THEN key_code ELSE last_down)
  ELSE NO_KEY

\* key_last_down as process_key leaves it
LastDownAfter(key_code, updown, last_down) ==
  IF updown # 0 THEN key_code ELSE NO_KEY

\* mutant of LongPressAfter: a down edge leaves key_long_press as it is
LongPressKept(updown, long) == long

\* key_long_press as process_key leaves it: a down edge clears it
LongPressAfter(updown, long) ==
  IF updown # 0 THEN FALSE ELSE long

\* RecoveryUI::process_key(key_code, updown), with the calls it makes:
\* NextCheckKeyIsLong, CheckKey and the action CheckKey selects.  The locked
\* section, IsKeyPressed and EnqueueKey are three critical sections of the
\* event thread; no other thread writes what the first two read or reads
\* what they write between them, so they are taken as one step.
\* android_reboot does not return: after REBOOT nothing runs any more.
process_key(key_code, updown) ==
  /\ ~rebooted
  /\ MutexFree
  /\ LET register_key == RegisterKey(key_code, updown, key_last_down)
         pressed == [k \in DOMAIN key_pressed \cup {key_code} |->
                       IF k = key_code THEN updown ELSE key_pressed[k]]
         ck == CheckKey(key_code, pressed, consecutive_power_keys,
                        consecutive_alternate_keys, last_key)
         act == IF register_key THEN ck.action ELSE NONE
     IN /\ key_pressed' = pressed
        /\ key_last_down' = LastDownAfter(key_code, updown, key_last_down)
        /\ key_long_press' = LongPressAfter(updown, key_long_press)
        /\ IF updown # 0
           THEN /\ key_down_count' = key_down_count + 1
                /\ timers' = timers \cup
                      {[key_code |-> key_code, count |-> key_down_count + 1]}
                /\ long_calls' = <<>>
                /\ UNCHANGED released
           ELSE /\ released' = released \cup
                                  {t \in timers : t.key_code = key_code}
                /\ UNCHANGED <<key_down_count, timers, long_calls>>
        /\ IF register_key
           THEN /\ consecutive_power_keys' = ck.cp
                /\ consecutive_alternate_keys' = ck.ca
                /\ last_key' = ck.lk
                /\ last_reg' = [key |-> key_code, long |-> key_long_press,
                                action |-> ck.action]
           ELSE /\ UNCHANGED policyVars
                /\ last_reg' = NoReg
        /\ text_visible' = IF act = TOGGLE THEN ~text_visible ELSE text_visible
        /\ rebooted' = (act = REBOOT)
        /\ IF act = ENQUEUE
           THEN EnqueueKey(key_code)
           ELSE UNCHANGED <<queueVars, dialog>>
        /\ last_ev' = <<key_code, updown>>
        /\ prev_ev' = last_ev
        /\ mon' = MonNext(mon, key_code, updown, act)
        /\ chord' = ChordNext(chord, key_code, updown, register_key)
  /\ UNCHANGED <<v_changed, usb, waitVars, socketVars>>

\* The event thread delivers a key event to process_key and nothing else of
\* input_callback's state is observed.
ProcessKey(key_code, updown) ==
  /\ process_key(key_code, updown)
  /\ UNCHANGED inputVars

\* mutant of LongPressDue: the snapshot of key_down_count is not compared
LongPressDueAnyCount(t, last_down, down_count) ==
  last_down = t.key_code

\* time_key's test under the lock
LongPressDue(t, last_down, down_count) ==
  last_down = t.key_code /\ down_count = t.count

\* RecoveryUI::time_key after its usleep (750 ms or more after the down edge
\* that started the thread, as late as the scheduler lets it run): the check
\* under the lock and the call of KeyLongPress.
TimeKey(t) ==
  /\ ~rebooted
  /\ MutexFree
  /\ t \in timers
  /\ timers' = timers \ {t}
  /\ released' = released \ {t}
  /\ IF LongPressDue(t, key_last_down, key_down_count)
     THEN /\ key_long_press' = TRUE
          /\ long_calls' = Append(long_calls, t)
     ELSE UNCHANGED <<key_long_press, long_calls>>
  /\ UNCHANGED <<key_pressed, key_last_down, key_down_count, policyVars,
                 queueVars, dialog, text_visible, rebooted, v_changed, usb,
                 waitVars, obsVars, inputVars, socketVars>>

\* The bounds on the down edges: key_down_count and the number of timer
\* threads that have not yet run are unbounded in the code.
DownAllowed(updown) ==
  updown # 0 => key_down_count < MaxDownCount /\ Cardinality(timers) < MaxTimers

\* The event thread and the timer threads under an arbitrary stream of key
\* events, with no control-socket traffic and the foreground thread outside
\* WaitKey (the key pipeline reads neither v_changed nor the cable state).
InitKeys == Init /\ v_changed = 0 /\ usb = FALSE /\ rel_sum = 0
NextKeys ==
  \/ \E k \in Keys, u \in UpDown : DownAllowed(u) /\ ProcessKey(k, u)
  \/ \E t \in timers : TimeKey(t)
SpecKeys == InitKeys /\ [][NextKeys]_vars

\* The same threads fed the streams of the power-press scenarios only:
\* (down P, up P)^n and (down P, up P)^6, down VD, up VD, (down P, up P)^n.
NextPower ==
  \/ \E k \in Keys, u \in UpDown :
        /\ MonNext(mon, k, u, NONE).phase # "off"
        /\ Cardinality(timers) < MaxTimers
        /\ ProcessKey(k, u)
  \/ \E t \in timers : TimeKey(t)
SpecPower == InitKeys /\ [][NextPower]_vars

(***************************************************************************)
(* Claims about the key pipeline and the default policy (SpecKeys)         *)
(***************************************************************************)
Registered == last_reg # NoReg
S1Done == mon.phase = "pw" /\ mon.n = 2 * REBOOT_PRESSES

\* C1: an up event for code c registers c (NextCheckKeyIsLong and CheckKey(c)
\* are called) if and only if the event before it was the down edge of c;
\* every up event leaves key_last_down at none, and a call registers no code
\* but its own.
C1_RegisteredIffCleanPair ==
  (last_ev # NoEv /\ last_ev[2] = 0) =>
     /\ Registered <=> (prev_ev = <<last_ev[1], 1>>)
     /\ Registered => last_reg.key = last_ev[1]
     /\ key_last_down = NO_KEY

\* C1 witness: a clean down/up pair has just been registered.
C1_Witness ==
  /\ last_ev = <<KEY_VOLUMEDOWN, 0>>
  /\ prev_ev = <<KEY_VOLUMEDOWN, 1>>
  /\ last_reg.key = KEY_VOLUMEDOWN

\* C2 as claimed: the chord A down, B down, B up, A up registers only A.
C2_ChordRegistersOnlyA ==
  chord.st = 4 => chord.regs = <<chord.a>>

\* C2 amended: the chord A down, B down, B up, A up registers exactly one
\* code and that code is B, the key pressed second and released first; A is
\* not registered.
C2_ChordRegistersOnlyB ==
  chord.st = 4 => chord.regs = <<chord.b>>

\* C2 witness: a chord of power and volume-up has just completed.
C2_Witness ==
  chord.st = 4 /\ chord.a = KEY_POWER /\ chord.b = KEY_VOLUMEUP

\* C3: from the initial state seven clean power presses give REBOOT on the
\* seventh registration and on none of the first six; after six power
\* presses and a volume-down press the counter is back at zero and six more
\* power presses give no REBOOT.
C3_PowerSevenReboots ==
  /\ (mon.phase = "pw" /\ mon.n < 2 * REBOOT_PRESSES) =>
        mon.reboots = 0 /\ ~rebooted
  /\ S1Done =>
        mon.reboots = 1 /\ rebooted /\ last_reg.action = REBOOT
  /\ (mon.phase = "pw2" /\ mon.n = 0) => consecutive_power_keys = 0
  /\ (mon.phase \in {"vd", "pw2"} /\ mon.n <= 2 * (REBOOT_PRESSES - 1)) =>
        mon.reboots = 0 /\ ~rebooted

\* C3 witness: six power presses, a volume-down press and six more power
\* presses have been fed.
C3_Witness ==
  /\ mon.phase = "pw2"
  /\ mon.n = 2 * (REBOOT_PRESSES - 1)
  /\ last_reg.key = KEY_POWER

\* C4 as claimed: {down P, up P} x 7 from the initial state gives one REBOOT
\* and no enqueue, the FIFO being empty at the end.
C4_S1NoEnqueues ==
  S1Done => mon.reboots = 1 /\ mon.enq = 0 /\ key_queue = <<>>

\* C4 amended: {down P, up P} x 7 from the initial state gives exactly one
\* REBOOT, on the seventh press, and the six presses before it each give
\* ENQUEUE: EnqueueKey(power) is called six times and the FIFO, which nobody
\* reads, holds min(6, capacity) power codes at the end.
C4_S1OneRebootSixEnqueues ==
  S1Done =>
     /\ mon.reboots = 1
     /\ mon.enq = REBOOT_PRESSES - 1
     /\ key_queue_len = Min(REBOOT_PRESSES - 1, queue_max)
     /\ key_queue = [i \in 1 .. key_queue_len |-> KEY_POWER]

\* C4 witness: the seventh power press of S1 has been released.
C4_Witness ==
  S1Done /\ last_ev = <<KEY_POWER, 0>> /\ rebooted

\* C5: while power is held, a clean press/release of volume-up is registered
\* with action TOGGLE: the text visibility flips, nothing is enqueued and the
\* policy counters are untouched; the power up event that follows is not
\* registered and leaves consecutive_power_keys alone.
C5_PowerHeldVolUpToggles ==
  [][ /\ ( /\ last_ev = <<KEY_VOLUMEUP, 1>>
           /\ last_ev' = <<KEY_VOLUMEUP, 0>>
           /\ key_pressed[KEY_POWER] # 0 )
         => /\ last_reg' = [key |-> KEY_VOLUMEUP, long |-> key_long_press,
                            action |-> TOGGLE]
            /\ text_visible' = ~text_visible
            /\ UNCHANGED <<key_queue, key_queue_len, policyVars>>
      /\ ( /\ last_ev = <<KEY_VOLUMEUP, 0>>
           /\ last_reg.action = TOGGLE
           /\ last_ev' = <<KEY_POWER, 0>> )
         => /\ last_reg' = NoReg
            /\ UNCHANGED <<policyVars, key_queue, key_queue_len>> ]_vars

\* C5 witness: power was released right after a volume-up press that
\* toggled the text, with earlier power presses counted.
C5_Witness ==
  /\ last_ev = <<KEY_POWER, 0>>
  /\ prev_ev = <<KEY_VOLUMEUP, 0>>
  /\ last_reg = NoReg
  /\ text_visible
  /\ consecutive_power_keys > 0

\* C6 as claimed: after CheckKey(k) has returned for a key k other than power,
\* whatever action it returned, consecutive_power_keys is 0.
C6_NonPowerResetsCounter ==
  (Registered /\ last_reg.key # KEY_POWER) => consecutive_power_keys = 0

(***************************************************************************)
(* The queue operations of the other threads                               *)
(***************************************************************************)
\* The event thread calls EnqueueKey (process_swipe does so directly).
EnqueueEv(key_code) ==
  /\ MutexFree
  /\ EnqueueKey(key_code)
  /\ UNCHANGED <<keyVars, policyVars, text_visible, rebooted, v_changed, usb,
                 waitVars, obsVars, inputVars, socketVars>>

\* RecoveryUI::CancelWaitKey: the store is not guarded by a test of
\* key_queue_len.  With key_queue_len = queue_max it lands one cell past the
\* array: on memory nothing else uses, or on key_queue_len itself when that
\* field follows the array (then the increment leaves CANCEL + 1).  With a
\* negative key_queue_len it lands before the array.
CancelWaitKey ==
  /\ MutexFree
  /\ last_op' = <<"cancel", CANCEL, Tick>>
  /\ cond_signals' = 1
  /\ IF 0 <= key_queue_len /\ key_queue_len < queue_max
     THEN /\ key_queue' = Append(key_queue, CANCEL)
          /\ key_queue_len' = key_queue_len + 1
          /\ UNCHANGED oob_write
     ELSE /\ oob_write' = TRUE
          /\ IF key_queue_len < 0
             THEN UNCHANGED key_queue /\ key_queue_len' = key_queue_len + 1
             ELSE \/ /\ key_queue' = Append(key_queue, CANCEL)
                     /\ key_queue_len' = key_queue_len + 1
                  \/ /\ key_queue' = <<>>
                     /\ key_queue_len' = CANCEL + 1
  /\ wmon' = IF pc = "idle" THEN wmon
             ELSE IF wmon.cancelled THEN [wmon EXCEPT !.again = TRUE]
             ELSE [wmon EXCEPT !.cancelled = (pc = "wait" /\ key_queue_len = 0)]
  /\ UNCHANGED <<keyVars, policyVars, dialog, text_visible, rebooted, v_changed,
                 usb, pc, timeouts, rc, vc_ret, wk_ret, obsVars, inputVars, socketVars>>

\* mutant of FlushKeys: the oldest queued code survives the flush
FlushKeysKeepsOldest ==
  /\ MutexFree
  /\ key_queue' = IF key_queue = <<>> THEN <<>> ELSE <<Head(key_queue)>>
  /\ key_queue_len' = Len(key_queue')
  /\ last_op' = <<"flush", 0, Tick>>
  /\ cond_signals' = 0
  /\ wmon' = IF pc = "idle" THEN wmon
             ELSE [wmon EXCEPT !.flushed = wmon.cancelled]
  /\ UNCHANGED <<keyVars, policyVars, dialog, text_visible, rebooted, v_changed,
                 usb, pc, timeouts, rc, vc_ret, wk_ret, oob_write, obsVars, inputVars, socketVars>>

\* RecoveryUI::FlushKeys
FlushKeys ==
  /\ MutexFree
  /\ key_queue' = <<>>
  /\ key_queue_len' = 0
  /\ last_op' = <<"flush", 0, Tick>>
  /\ cond_signals' = 0
  /\ wmon' = IF pc = "idle" THEN wmon
             ELSE [wmon EXCEPT !.flushed = wmon.cancelled]
  /\ UNCHANGED <<keyVars, policyVars, dialog, text_visible, rebooted, v_changed,
                 usb, pc, timeouts, rc, vc_ret, wk_ret, oob_write, obsVars, inputVars, socketVars>>

\* RecoveryUI::NotifyVolumesChanged: a plain store, made without the lock.
NotifyVolumesChanged ==
  /\ v_changed' = 1
  /\ wmon' = [wmon EXCEPT !.notified = (wmon.notified \/ pc # "idle")]
  /\ UNCHANGED <<keyVars, policyVars, queueVars, dialog, text_visible,
                 rebooted, usb, pc, timeouts, rc, vc_ret, wk_ret, obsVars, inputVars, socketVars>>

\* message_socket_client_event: "dialog show <text>" calls DialogShowInfo;
\* whether the dialog it shows is dismissable is the renderer's choice.
DialogShowInfo ==
  /\ dialog' \in {"dismissable", "sticky"}
  /\ dialog' # dialog
  /\ UNCHANGED <<keyVars, policyVars, queueVars, text_visible, rebooted,
                 v_changed, usb, waitVars, obsVars, inputVars, socketVars>>

\* message_socket_client_event: "dialog dismiss", or the client going away,
\* calls DialogDismiss.
DialogDismiss ==
  /\ dialog # "none"
  /\ dialog' = "none"
  /\ UNCHANGED <<keyVars, policyVars, queueVars, text_visible, rebooted,
                 v_changed, usb, waitVars, obsVars, inputVars, socketVars>>

\* The cable is plugged in or pulled: what usb_connected would read from
\* /sys/class/android_usb/android0/state changes.
UsbChange ==
  /\ usb' = ~usb
  /\ UNCHANGED <<keyVars, policyVars, queueVars, dialog, text_visible,
                 rebooted, v_changed, waitVars, obsVars, inputVars, socketVars>>

(***************************************************************************)
(* The foreground thread: RecoveryUI::WaitKey                              *)
(***************************************************************************)
\* RecoveryUI::usb_connected: the probe of the sysfs state file
usb_connected == usb

\* WaitKey's outer loop condition, evaluated with `timeouts` already
\* decremented to t
KeepWaiting(t, len) ==
  (t # 0 \/ usb_connected) /\ len = 0

\* WaitKey returns `key`: its locals die.
WaitKeyReturn(key) ==
  /\ pc' = "idle"
  /\ wk_ret' = key
  /\ timeouts' = 0
  /\ rc' = 0
  /\ vc_ret' = 0

\* mutant of TakeKey: the newest code is taken instead of the oldest
TakeKeyNewest ==
  IF key_queue_len > 0
  THEN /\ key_queue' = SubSeq(key_queue, 1, Len(key_queue) - 1)
       /\ key_queue_len' = key_queue_len - 1
       /\ WaitKeyReturn(key_queue[Len(key_queue)])
  ELSE /\ UNCHANGED <<key_queue, key_queue_len>>
       /\ WaitKeyReturn(NO_KEY)

\* WaitKey after its loops: take the head of the queue, if there is one.
TakeKey ==
  IF key_queue_len > 0
  THEN /\ key_queue' = Tail(key_queue)
       /\ key_queue_len' = key_queue_len - 1
       /\ WaitKeyReturn(Head(key_queue))
  ELSE /\ UNCHANGED <<key_queue, key_queue_len>>
       /\ WaitKeyReturn(NO_KEY)

\* WaitKey from the end of one pass of the inner loop (r is the rc of the
\* pass, ETIMEDOUT or 0) to the next pthread_cond_timedwait or to the return.
\* The lock is held throughout.
AfterPass(r) ==
  IF key_queue_len = 0 /\ r # ETIMEDOUT
  THEN \* the inner loop waits again, in the same slice
       /\ pc' = "wait"
       /\ rc' = r
       /\ UNCHANGED <<key_queue, key_queue_len, timeouts, vc_ret, wk_ret>>
  ELSE IF KeepWaiting(timeouts - 1, key_queue_len)
  THEN \* the next slice: rc = 0 and key_queue_len = 0, the inner loop waits
       /\ pc' = "wait"
       /\ rc' = 0
       /\ timeouts' = timeouts - 1
       /\ UNCHANGED <<key_queue, key_queue_len, vc_ret, wk_ret>>
  ELSE TakeKey

\* WaitKey is called: lock, timeouts = UI_WAIT_KEY_TIMEOUT_SEC, and on to
\* the first wait (the inner loop is entered with rc = 0) or to the return.
WaitKeyStart ==
  /\ pc = "idle"
  /\ wmon' = WMonOff
  /\ IF key_queue_len = 0
     THEN /\ pc' = "wait"
          /\ timeouts' = UI_WAIT_KEY_TIMEOUT_SEC
          /\ rc' = 0
          /\ UNCHANGED <<key_queue, key_queue_len, vc_ret, wk_ret>>
     ELSE TakeKey
  /\ UNCHANGED <<keyVars, policyVars, oob_write, cond_signals, last_op, dialog,
                 text_visible, rebooted, v_changed, usb, obsVars, inputVars, socketVars>>

\* pthread_cond_timedwait returns r, with the lock taken again: after a
\* signal or spuriously (0), or at the end of the slice (ETIMEDOUT).
Wake(r) ==
  /\ pc = "wait"
  /\ rc' = r
  /\ pc' = "vc_read"
  /\ UNCHANGED <<keyVars, policyVars, queueVars, dialog, text_visible,
                 rebooted, v_changed, usb, timeouts, vc_ret, wk_ret, wmon,
                 obsVars, inputVars, socketVars>>

\* VolumesChanged: int ret = v_changed;
VcRead ==
  /\ pc = "vc_read"
  /\ vc_ret' = v_changed
  /\ pc' = "vc_test"
  /\ UNCHANGED <<keyVars, policyVars, queueVars, dialog, text_visible,
                 rebooted, v_changed, usb, timeouts, rc, wk_ret, wmon, obsVars, inputVars, socketVars>>

\* What WaitKey does with the value VolumesChanged returns.
AfterVolumesChanged(changed) ==
  IF changed
  THEN UNCHANGED <<key_queue, key_queue_len>> /\ WaitKeyReturn(kRefresh)
  ELSE AfterPass(rc)

\* VolumesChanged: if (v_changed > 0): the second read of the flag.  With
\* the test false the function returns ret == 1.
VcTest ==
  /\ pc = "vc_test"
  /\ IF v_changed > 0
     THEN /\ pc' = "vc_clear"
          /\ UNCHANGED <<key_queue, key_queue_len, timeouts, rc, vc_ret,
                         wk_ret>>
     ELSE AfterVolumesChanged(vc_ret = 1)
  /\ UNCHANGED <<keyVars, policyVars, oob_write, cond_signals, last_op, dialog,
                 text_visible, rebooted, v_changed, usb, wmon, obsVars, inputVars, socketVars>>

\* VolumesChanged: v_changed = 0; return ret == 1;
VcClear ==
  /\ pc = "vc_clear"
  /\ v_changed' = 0
  /\ AfterVolumesChanged(vc_ret = 1)
  /\ UNCHANGED <<keyVars, policyVars, oob_write, cond_signals, last_op, dialog,
                 text_visible, rebooted, usb, wmon, obsVars, inputVars, socketVars>>

\* The foreground thread in WaitKey against the event thread's enqueues and
\* dialog calls and the threads that cancel, flush and notify.  The key
\* pipeline is idle, so key_pressed is not read.
InitWait ==
  Init /\ key_pressed = [k \in Keys |-> 0] /\ usb = FALSE /\ rel_sum = 0
NextWait ==
  \/ \E k \in {KEY_POWER, KEY_VOLUMEDOWN} : EnqueueEv(k)
  \/ key_queue_len <= queue_max /\ CancelWaitKey
  \/ FlushKeys
  \/ NotifyVolumesChanged
  \/ DialogShowInfo
  \/ DialogDismiss
  \/ WaitKeyStart
  \/ Wake(0)
  \/ timeouts > UI_WAIT_KEY_TIMEOUT_SEC - MaxSlices /\ Wake(ETIMEDOUT)
  \/ VcRead
  \/ VcTest
  \/ VcClear
SpecWait == InitWait /\ [][NextWait]_vars

\* The foreground thread in WaitKey with nothing enqueued, cancelled or
\* notified: only the slices pass and the cable comes and goes.
InitTimeout == Init /\ key_pressed = [k \in Keys |-> 0] /\ rel_sum = 0
NextTimeout ==
  \/ UsbChange
  \/ WaitKeyStart
  \/ Wake(0)
  \/ timeouts > -MaxExtraSlices /\ Wake(ETIMEDOUT)
  \/ VcRead
  \/ VcTest
  \/ VcClear
SpecTimeout == InitTimeout /\ [][NextTimeout]_vars

(***************************************************************************)
(* Claims about the waiter and the FIFO (SpecWait, SpecTimeout)            *)
(***************************************************************************)
\* The step in which VolumesChanged returns to WaitKey, which then waits
\* again or returns.
PassEnds == pc \in {"vc_test", "vc_clear"} /\ pc' \in {"idle", "wait"}

\* C7 as claimed: after a CancelWaitKey called while WaitKey is blocked on an
\* empty FIFO, the pending call returns CANCEL at its next wake-up, whatever
\* enqueues, flushes and notifications interleave.
C7_PendingWaitReturnsCancel ==
  [][ (PassEnds /\ wmon.cancelled /\ ~wmon.again)
        => (pc' = "idle" /\ wk_ret' = CANCEL) ]_vars

\* C7 amended: after a CancelWaitKey called while WaitKey is blocked on an
\* empty FIFO, and with no FlushKeys in between, the pending call returns at
\* its next wake-up, within the current slice, whatever enqueues and
\* notifications interleave: it returns CANCEL, or kRefresh when
\* VolumesChanged reports a change, and then CANCEL stays at the head of the
\* FIFO.
C7_PendingWaitReturnsCancelOrRefresh ==
  [][ (PassEnds /\ wmon.cancelled /\ ~wmon.again /\ ~wmon.flushed)
        => /\ pc' = "idle"
           /\ \/ wk_ret' = CANCEL
              \/ /\ wk_ret' = kRefresh
                 /\ vc_ret = 1
                 /\ key_queue_len' > 0
                 /\ Head(key_queue') = CANCEL ]_vars

\* C7 witness: a call that was cancelled while blocked on an empty FIFO, with
\* a key enqueued behind the CANCEL, has returned CANCEL.
C7_Witness ==
  /\ pc = "idle"
  /\ wmon.cancelled /\ ~wmon.again /\ ~wmon.flushed
  /\ wk_ret = CANCEL
  /\ key_queue = <<KEY_POWER>>

\* C8 as claimed: a NotifyVolumesChanged made while a WaitKey call is pending
\* is never lost, whatever the interleaving of its store with the waiter's
\* reads and store: until the call returns the notification is still in the
\* flag or in the value VolumesChanged has read, and the call returns
\* kRefresh.
C8_NotificationNeverLost ==
  wmon.notified =>
     IF pc = "idle"
     THEN wk_ret = kRefresh
     ELSE v_changed = 1 \/ (pc \in {"vc_test", "vc_clear"} /\ vc_ret = 1)

\* C9 as claimed: at every slice boundary at or after the 120th with an empty
\* FIFO, no volume change and the cable probe reporting disconnected,
\* WaitKey returns the no-key value.
C9_TimeoutProbesCableEverySlice ==
  [][ ( /\ PassEnds
        /\ rc = ETIMEDOUT
        /\ vc_ret # 1
        /\ timeouts - 1 <= 0
        /\ key_queue_len = 0
        /\ ~usb )
        => (pc' = "idle" /\ wk_ret' = NO_KEY) ]_vars

\* C10: EnqueueKey never waits for room (it can run whenever the lock is
\* free); with no dialog showing and the FIFO holding queue_max codes it
\* leaves the FIFO as it is and does not signal the condition; with room in
\* the FIFO it appends the code at the tail, the length grows by one and the
\* condition is signalled once.
C10_EnqueueDropsWhenFull ==
  /\ [](MutexFree => \A k \in {KEY_POWER, KEY_VOLUMEDOWN} : ENABLED EnqueueEv(k))
  /\ [][ (last_op' # last_op /\ last_op'[1] = "enqueue" /\ dialog = "none")
          => /\ key_queue_len = queue_max
                  => /\ UNCHANGED <<key_queue, key_queue_len>>
                     /\ cond_signals' = 0
             /\ (0 <= key_queue_len /\ key_queue_len < queue_max)
                  => /\ key_queue' = Append(key_queue, last_op'[2])
                     /\ key_queue_len' = key_queue_len + 1
                     /\ Len(key_queue') = key_queue_len'
                     /\ cond_signals' = 1 ]_vars

\* C10 witness: an enqueue has just been dropped by a full FIFO.
C10_Witness ==
  /\ last_op[1] = "enqueue"
  /\ cond_signals = 0
  /\ dialog = "none"
  /\ key_queue_len = queue_max
  /\ Len(key_queue) = queue_max
  /\ ~oob_write

\* C11: FlushKeys leaves the FIFO empty, and for as long as no EnqueueKey or
\* CancelWaitKey has been called since the flush the FIFO stays empty, a
\* WaitKey call that starts blocks, and a WaitKey call that returns returns
\* the no-key value (timeout) or kRefresh (volume change): no code enqueued
\* before the flush is ever returned.
C11_FlushThenWaitBlocks ==
  /\ [][ (last_op' # last_op /\ last_op'[1] = "flush")
          => (key_queue' = <<>> /\ key_queue_len' = 0) ]_vars
  /\ [][ (last_op[1] = "flush" /\ last_op' = last_op)
          => /\ key_queue' = <<>> /\ key_queue_len' = 0
             /\ (pc = "idle" /\ pc' # "idle") => pc' = "wait"
             /\ (pc # "idle" /\ pc' = "idle") => wk_ret' \in {NO_KEY, kRefresh}
             /\ (pc = "idle" /\ pc' = "idle") => wk_ret' = wk_ret ]_vars

\* C11 witness: a WaitKey call blocked on an empty FIFO was cancelled, a
\* FlushKeys then dropped the CANCEL, and with slices gone by the call is
\* still blocked.
C11_Witness ==
  /\ pc = "wait"
  /\ last_op[1] = "flush"
  /\ wmon.cancelled /\ wmon.flushed /\ ~wmon.again
  /\ timeouts < UI_WAIT_KEY_TIMEOUT_SEC
  /\ key_queue = <<>> /\ key_queue_len = 0

(***************************************************************************)
(* The control socket: string_split and message_socket_client_event        *)
(***************************************************************************)
\* A message is a sequence of symbols: the space character, and words, each
\* standing for a run of characters other than the space.  Two words next
\* to each other would be one longer word, so no message has them.
SPACE == " "
Words == {"dialog", "show", "dismiss", "Hello", "world"}

RECURSIVE Strings(_)
Strings(n) ==
  IF n = 0 THEN {<<>>}
  ELSE LET S == Strings(n - 1)
           Longest == {x \in S : Len(x) = n - 1}
           Next1(x) == IF x = <<>> \/ x[Len(x)] = SPACE
                       THEN Words \cup {SPACE} ELSE {SPACE}
       IN S \cup UNION {{Append(x, c) : c \in Next1(x)} : x \in Longest}

Messages == Strings(MaxMsgLen) \ {<<>>}

\* What MessageSocket::Read can return: an error, the end of the stream, or
\* a message in buf.
Reads ==
  {[nread |-> n, buf |-> <<>>] : n \in {-1, 0}} \cup
  {[nread |-> Len(m), buf |-> m] : m \in Messages}

\* strchr(s, ' '): the position of the first space, 0 for none
strchr(s) ==
  IF \E i \in 1..Len(s) : s[i] = SPACE
  THEN CHOOSE i \in 1..Len(s) :
         s[i] = SPACE /\ \A j \in 1..(i - 1) : s[j] # SPACE
  ELSE 0

\* The loop of string_split with `fields` filled so far, and the store of
\* the remainder after it.
RECURSIVE string_split_from(_, _, _)
string_split_from(s, fields, maxfields) ==
  LET p == strchr(s)
  IN IF Len(fields) + 1 < maxfields /\ p # 0
     THEN string_split_from(SubSeq(s, p + 1, Len(s)),
                            Append(fields, SubSeq(s, 1, p - 1)), maxfields)
     ELSE Append(fields, s)

\* The part of s after its last space.
RECURSIVE LastToken(_)
LastToken(s) ==
  IF strchr(s) = 0 THEN s ELSE LastToken(SubSeq(s, strchr(s) + 1, Len(s)))

\* mutant of string_split: the last field is cut down to what follows the
\* last space of the remainder
string_split_last_token(s, maxfields) ==
  LET f == string_split_from(s, <<>>, maxfields)
  IN [f EXCEPT ![Len(f)] = LastToken(f[Len(f)])]

\* string_split(s, fields, maxfields): the fields it stores; their number is
\* its return value.
string_split(s, maxfields) ==
  string_split_from(s, <<>>, maxfields)

ShowInfo(text) == [op |-> "DialogShowInfo", text |-> text]
Dismiss == [op |-> "DialogDismiss", text |-> <<>>]

\* The dialog calls message_socket_client_event makes for what Read returned.
ClientCalls(r) ==
  IF r.nread <= 0 THEN <<Dismiss>>
  ELSE LET fields == string_split(r.buf, MAXFIELDS)
           nfields == Len(fields)
       IN IF nfields < 2 THEN <<>>
          ELSE IF fields[1] = <<"dialog">>
          THEN (IF fields[2] = <<"show">> /\ nfields > 2
                THEN <<ShowInfo(fields[3])>> ELSE <<>>)
               \o (IF fields[2] = <<"dismiss">> THEN <<Dismiss>> ELSE <<>>)
          ELSE <<>>

\* A client writes a message, or goes away.
ClientSend(r) ==
  /\ sock_in = NoRead
  /\ sock_in' = r
  /\ sock_calls' = <<>>
  /\ UNCHANGED <<keyVars, policyVars, queueVars, dialog, text_visible,
                 rebooted, v_changed, usb, waitVars, obsVars, inputVars>>

\* message_socket_client_event with POLLIN set.  Whether the dialog that
\* DialogShowInfo shows is dismissable is the renderer's choice.
MessageSocketClientEvent ==
  /\ sock_in # NoRead
  /\ sock_in' = NoRead
  /\ sock_calls' = ClientCalls(sock_in)
  /\ IF sock_calls' = <<>>
     THEN UNCHANGED dialog
     ELSE IF sock_calls'[Len(sock_calls')].op = "DialogDismiss"
     THEN dialog' = "none"
     ELSE dialog' \in {"dismissable", "sticky"}
  /\ UNCHANGED <<keyVars, policyVars, queueVars, text_visible, rebooted,
                 v_changed, usb, waitVars, obsVars, inputVars>>

\* The event thread serving one control-socket client.
InitSocket ==
  Init /\ key_pressed = [k \in Keys |-> 0] /\ v_changed = 0 /\ usb = FALSE
       /\ rel_sum = 0
NextSocket ==
  \/ \E r \in Reads : ClientSend(r)
  \/ MessageSocketClientEvent
SpecSocket == InitSocket /\ [][NextSocket]_vars

(***************************************************************************)
(* The event thread: input_callback, process_swipe, the trackball          *)
(***************************************************************************)
Abs(x) == IF x < 0 THEN -x ELSE x

\* touch_x_rel * gr_fb_width(): (float)value / (float)max * fb, stored in an
\* integer field.  The device maximum is a power of two, so the quotient and
\* the product are exact in float arithmetic and the store truncates.
Pixel(value, max, fb) == (value * fb) \div max

\* process_swipe on BTN_TOUCH: ev->value is compared with the key codes
\* KEY_DOWN and KEY_UP.
MtCountAfter(value, count) ==
  IF value = KEY_DOWN THEN count + 1
  ELSE IF count > 0 /\ value = KEY_UP THEN count - 1
  ELSE count

\* process_swipe on EV_SYN: the key it enqueues for the accumulated
\* displacement, NO_KEY for none.
SwipeKey(dx, dy) ==
  IF dy > min_y_swipe_px THEN KEY_VOLUMEDOWN
  ELSE IF dy < -min_y_swipe_px THEN KEY_VOLUMEUP
  ELSE IF dx > min_x_swipe_px THEN KEY_POWER
  ELSE IF dx < -min_x_swipe_px THEN KEY_BACK
  ELSE NO_KEY

\* Does process_swipe, called with this event, get as far as the tests of
\* the displacement?
SwipeSync(type, code) ==
  type = EV_SYN /\ ~(in_touch = 0 /\ code = SYN_MT_REPORT)

\* RecoveryUI::reset_gestures
reset_gestures ==
  /\ diff_x' = 0 /\ diff_y' = 0
  /\ old_x' = 0 /\ old_y' = 0
  /\ touch_x' = 0 /\ touch_y' = 0

\* RecoveryUI::process_swipe, but for its EnqueueKey call (SwipeKey tells
\* which): what it does to the gesture fields.
process_swipe(type, code, value) ==
  LET lazy == max_x_touch = 0 \/ max_y_touch = 0
      mx == IF lazy THEN abs_max_x ELSE max_x_touch
      my == IF lazy THEN abs_max_y ELSE max_y_touch
  IN /\ max_x_touch' = mx
     /\ max_y_touch' = my
     /\ IF type = EV_KEY /\ code = BTN_TOUCH
        THEN /\ mt_count' = MtCountAfter(value, mt_count)
             /\ IF mt_count' = 0
                THEN reset_gestures
                ELSE UNCHANGED <<diff_x, diff_y, old_x, old_y, touch_x, touch_y>>
             /\ UNCHANGED in_touch
        ELSE IF type = EV_SYN
        THEN IF in_touch = 0 /\ code = SYN_MT_REPORT
             THEN reset_gestures /\ UNCHANGED <<in_touch, mt_count>>
             ELSE /\ in_touch' = 0
                  /\ IF SwipeKey(diff_x, diff_y) # NO_KEY
                     THEN reset_gestures
                     ELSE UNCHANGED <<diff_x, diff_y, old_x, old_y, touch_x,
                                      touch_y>>
                  /\ UNCHANGED mt_count
        ELSE IF type = EV_ABS /\ code = ABS_MT_POSITION_X
        THEN /\ in_touch' = 1
             /\ old_x' = touch_x
             /\ touch_x' = Pixel(value, mx, fb_width)
             /\ diff_x' = IF old_x' # 0 THEN diff_x + (touch_x' - old_x')
                          ELSE diff_x
             /\ UNCHANGED <<old_y, touch_y, diff_y, mt_count>>
        ELSE IF type = EV_ABS /\ code = ABS_MT_POSITION_Y
        THEN /\ in_touch' = 1
             /\ old_y' = touch_y
             /\ touch_y' = Pixel(value, my, fb_height)
             /\ diff_y' = IF old_y' # 0 THEN diff_y + (touch_y' - old_y')
                          ELSE diff_y
             /\ UNCHANGED <<old_x, touch_x, diff_x, mt_count>>
        ELSE UNCHANGED <<in_touch, touch_x, touch_y, old_x, old_y, diff_x,
                         diff_y, mt_count>>

\* mutant of AccumulateRel: an EV_SYN event resets the sum as well
AccumulateRelSynResets(type, code, value, sum) ==
  IF type = EV_REL
  THEN (IF code = REL_Y THEN sum + value ELSE sum)
  ELSE 0

\* input_callback's if-chain on ev.type, up to the tests of the threshold:
\* what it leaves in rel_sum.
AccumulateRel(type, code, value, sum) ==
  IF type = EV_SYN THEN sum
  ELSE IF type = EV_REL
  THEN (IF code = REL_Y THEN sum + value ELSE sum)
  ELSE 0

\* The key input_callback fakes for the sum of a REL_Y event, NO_KEY for
\* none.
TrackballKey(sum) ==
  IF sum > REL_THRESHOLD THEN KEY_DOWN
  ELSE IF sum < -REL_THRESHOLD THEN KEY_UP
  ELSE NO_KEY

\* What process_key leaves alone, for the events that do not reach it.
NoProcessKey ==
  UNCHANGED <<keyVars, policyVars, obsVars, text_visible, rebooted, v_changed,
              usb, waitVars, socketVars>>

\* RecoveryUI::input_callback for the event <<type, code, value>>.  For a
\* REL_Y event that crosses the threshold this is the callback up to the
\* return of the first process_key call (the press); TrackballRelease is the
\* rest of it.
InputCallback(type, code, value) ==
  /\ ev_pc = "idle"
  /\ ~rebooted
  /\ MutexFree
  /\ last_in' = <<type, code, value>>
  /\ process_swipe(type, code, value)
  /\ rel_sum' = AccumulateRel(type, code, value, rel_sum)
  /\ IF type = EV_SYN
     THEN /\ IF SwipeSync(type, code) /\ SwipeKey(diff_x, diff_y) # NO_KEY
             THEN EnqueueKey(SwipeKey(diff_x, diff_y))
             ELSE UNCHANGED <<queueVars, dialog>>
          /\ NoProcessKey
          /\ UNCHANGED ev_pc
     ELSE IF type = EV_REL
     THEN IF code = REL_Y /\ TrackballKey(rel_sum') # NO_KEY
          THEN /\ process_key(TrackballKey(rel_sum'), 1)
               /\ ev_pc' = "release"
          ELSE /\ NoProcessKey
               /\ UNCHANGED <<queueVars, dialog, ev_pc>>
     ELSE IF type = EV_KEY /\ code <= KEY_MAX
     THEN process_key(code, value) /\ UNCHANGED ev_pc
     ELSE /\ NoProcessKey
          /\ UNCHANGED <<queueVars, dialog, ev_pc>>

\* input_callback after the press of the faked key: the release, and
\* rel_sum = 0.
TrackballRelease ==
  /\ ev_pc = "release"
  /\ process_key(TrackballKey(rel_sum), 0)
  /\ rel_sum' = 0
  /\ ev_pc' = "idle"
  /\ UNCHANGED <<gestureVars, last_in>>

\* The events of a touch screen: position reports and syncs, and BTN_TOUCH
\* at the beginning and the end of a contact.
XValues == {0, abs_max_x \div 2, abs_max_x}
YValues == {0, abs_max_y}
SwipeEvents ==
  {<<EV_ABS, ABS_MT_POSITION_X, v>> : v \in XValues} \cup
  {<<EV_ABS, ABS_MT_POSITION_Y, v>> : v \in YValues} \cup
  {<<EV_SYN, c, 0>> : c \in {SYN_REPORT, SYN_MT_REPORT}}
TouchEvents ==
  {<<EV_KEY, BTN_TOUCH, v>> : v \in UpDown} \cup
  {<<EV_ABS, ABS_MT_POSITION_X, v>> : v \in XValues} \cup
  {<<EV_SYN, SYN_REPORT, 0>>}

\* The bounds on the events fed: down edges, those of the faked keys
\* included, as in DownAllowed; position reports while the displacement is
\* within MaxDiffPx.
EventAllowed(ev) ==
  /\ ev[1] = EV_KEY => DownAllowed(ev[3])
  /\ (ev[1] = EV_REL /\
       TrackballKey(AccumulateRel(ev[1], ev[2], ev[3], rel_sum)) # NO_KEY)
        => DownAllowed(1)
  /\ ev[1] = EV_ABS => Abs(diff_x) <= MaxDiffPx /\ Abs(diff_y) <= MaxDiffPx

\* The event thread reading the position reports and syncs of a touch
\* screen; no key event arrives, so no timer thread exists.
InitInput ==
  Init /\ key_pressed = [k \in Keys |-> 0] /\ v_changed = 0 /\ usb = FALSE
NextSwipe ==
  \E ev \in SwipeEvents :
     EventAllowed(ev) /\ InputCallback(ev[1], ev[2], ev[3])
SpecSwipe == InitInput /\ [][NextSwipe]_vars

\* The event thread reading the contacts of a touch screen with their X
\* reports, and the timer threads that the BTN_TOUCH down edges start.
NextTouch ==
  \/ \E ev \in TouchEvents :
        EventAllowed(ev) /\ InputCallback(ev[1], ev[2], ev[3])
  \/ \E t \in timers : TimeKey(t)
SpecTouch == InitInput /\ [][NextTouch]_vars

\* The events of a trackball, and of one key.
RelValues == {-2, -1, 1, 2}
TrackballEvents ==
  {<<EV_REL, REL_Y, v>> : v \in RelValues} \cup
  {<<EV_REL, REL_X, 1>>, <<EV_SYN, SYN_REPORT, 0>>} \cup
  {<<EV_KEY, KEY_VOLUMEUP, v>> : v \in UpDown}

\* The event thread reading a trackball and a key, and the timer threads.
NextTrackball ==
  \/ \E ev \in TrackballEvents :
        EventAllowed(ev) /\ InputCallback(ev[1], ev[2], ev[3])
  \/ TrackballRelease
  \/ \E t \in timers : TimeKey(t)
SpecTrackball == InitInput /\ [][NextTrackball]_vars

(***************************************************************************)
(* Claims about the control socket (SpecSocket)                            *)
(***************************************************************************)
HelloWorld == <<"dialog", SPACE, "show", SPACE, "Hello", SPACE, "world">>

\* The step in which message_socket_client_event handles the message m.
Handles(m) == sock_in.nread > 0 /\ sock_in.buf = m /\ sock_in' = NoRead

\* C15 as claimed: the message "dialog show Hello world" results in exactly
\* one dialog call, DialogShowInfo("world").
C15_ShowInfoLastToken ==
  [][ Handles(HelloWorld) => sock_calls' = <<ShowInfo(<<"world">>)>> ]_vars

\* C15 amended: the message "dialog show Hello world" results in exactly one
\* dialog call, DialogShowInfo("Hello world"); and for every message, a
\* DialogShowInfo call is made exactly when the message begins with
\* "dialog show " and its text is all that follows the second space, further
\* spaces included.
C15_ShowInfoWholeRemainder ==
  [][ Handles(sock_in.buf) =>
        LET m == sock_in.buf
            prefix == <<"dialog", SPACE, "show", SPACE>>
            shows == {i \in 1..Len(sock_calls') :
                        sock_calls'[i].op = "DialogShowInfo"}
        IN /\ m = HelloWorld
                => sock_calls' = <<ShowInfo(<<"Hello", SPACE, "world">>)>>
           /\ IF Len(m) >= 4 /\ SubSeq(m, 1, 4) = prefix
              THEN sock_calls' = <<ShowInfo(SubSeq(m, 5, Len(m)))>>
              ELSE shows = {} ]_vars

\* C15 witness: the message "dialog show Hello world" has been handled and
\* the one call made was DialogShowInfo("Hello world").
C15_Witness ==
  /\ sock_in = NoRead
  /\ sock_calls = <<ShowInfo(<<"Hello", SPACE, "world">>)>>
  /\ dialog # "none"

(***************************************************************************)
(* Claims about the long-press timers (SpecKeys)                           *)
(***************************************************************************)
\* The step in which the time_key thread t runs its check.
Fired(t) == t \in timers /\ t \notin timers'

\* The calls KeyLongPress(key_code) in a log of calls.
CallsFor(key_code, calls) ==
  {i \in 1..Len(calls) : calls[i].key_code = key_code}

\* C12 as claimed: when the time_key thread of a down edge runs its check
\* (750 ms or more after the edge) and the key has not gone up since that
\* edge, KeyLongPress has been called exactly once for the key, whatever
\* events came in between and however late the thread runs.
C12_HeldKeyLongPressOnce ==
  [][ \A t \in timers :
        (Fired(t) /\ t \notin released)
          => Cardinality(CallsFor(t.key_code, long_calls')) = 1 ]_vars

\* C13: a time_key thread started with snapshot n sets key_long_press and
\* calls KeyLongPress exactly when, at its check, key_last_down is its code
\* and key_down_count is still n; otherwise it changes nothing.  A thread
\* whose key has gone up since its down edge, and a thread of an earlier down
\* edge, make no call.  Since the last down edge at most one call was made,
\* by the thread of that edge.
C13_StaleTimersAreNoOps ==
  /\ [][ \A t \in timers :
          Fired(t) =>
            IF key_last_down = t.key_code /\ key_down_count = t.count
            THEN /\ key_long_press'
                 /\ long_calls' = Append(long_calls, t)
                 /\ t \notin released
            ELSE UNCHANGED <<key_long_press, long_calls>> ]_vars
  /\ [](/\ Len(long_calls) <= 1
        /\ \A i \in 1..Len(long_calls) : long_calls[i].count = key_down_count
        /\ key_long_press <=> long_calls # <<>>)

\* C13 witness: a key went down and up, the up edge registered it as a short
\* press, and the thread of the down edge has since run without a call.
C13_Witness ==
  /\ prev_ev = <<KEY_VOLUMEUP, 1>>
  /\ last_ev = <<KEY_VOLUMEUP, 0>>
  /\ last_reg.key = KEY_VOLUMEUP /\ ~last_reg.long
  /\ key_down_count = 1
  /\ timers = {}
  /\ long_calls = <<>>
  /\ ~key_long_press

\* C20: at a registration of code c, NextCheckKeyIsLong is called with true
\* exactly when the time_key thread of the down edge being released (code c,
\* snapshot key_down_count) has made its check, and with it its call of
\* KeyLongPress, before the up edge was processed; a flag set by the thread
\* of an earlier down edge or of another key is never handed over.
C20_LongFlagIsOfThisPress ==
  [][ (last_reg' # NoReg /\ timers' = timers)
        => (last_reg'.long <=>
              long_calls = <<[key_code |-> last_reg'.key,
                              count |-> key_down_count]>>) ]_vars

\* C20 witness: the second press of the power key was registered as a long
\* press after the thread of its own down edge had run.
C20_Witness ==
  /\ last_ev = <<KEY_POWER, 0>>
  /\ last_reg.key = KEY_POWER /\ last_reg.long
  /\ key_down_count = 2
  /\ long_calls = <<[key_code |-> KEY_POWER, count |-> 2]>>

(***************************************************************************)
(* Claims about the bounds and the order of the FIFO (SpecWait)            *)
(***************************************************************************)
\* C18 as claimed: whatever EnqueueKey, CancelWaitKey, WaitKey and FlushKeys
\* calls have run, 0 <= key_queue_len <= queue_max and no store has landed
\* outside key_queue.
C18_QueueWithinBounds ==
  /\ 0 <= key_queue_len
  /\ key_queue_len <= queue_max
  /\ ~oob_write

\* C19 as claimed: the FIFO changes only in three ways: EnqueueKey and
\* CancelWaitKey append their code at the tail (or leave the FIFO as it is),
\* FlushKeys empties it, and a WaitKey call that returns a code returns the
\* head and removes it; a call that returns kRefresh or the no-key value
\* leaves the FIFO as it is.  So the codes are returned in the order in which
\* they were accepted, none twice and none lost.
C19_FifoDeliveryOrder ==
  [][ IF last_op' # last_op
      THEN IF last_op'[1] = "flush"
           THEN key_queue' = <<>>
           ELSE \/ key_queue' = key_queue
                \/ key_queue' = Append(key_queue, last_op'[2])
      ELSE \/ /\ key_queue' = key_queue
              /\ (pc # "idle" /\ pc' = "idle") => wk_ret' \in {kRefresh, NO_KEY}
           \/ /\ key_queue # <<>>
              /\ pc' = "idle"
              /\ wk_ret' = Head(key_queue)
              /\ key_queue' = Tail(key_queue) ]_vars

(***************************************************************************)
(* Claims about the gesture recogniser and the trackball                   *)
(* (SpecSwipe, SpecTouch, SpecTrackball)                                   *)
(***************************************************************************)
IsXReport(ev) == ev[1] = EV_ABS /\ ev[2] = ABS_MT_POSITION_X

\* C14 as claimed: when an ABS_MT_POSITION_X report follows another one, the
\* pixel delta between the two is added to diff_x, also when the pixel
\* coordinate of the earlier report is 0 (as in S3: X = 0, then X = 4096
\* for 1080 pixels, which the next SYN_REPORT turns into the power key).
C14_DeltaAddedAfterAnyXReport ==
  [][ (IsXReport(last_in) /\ IsXReport(last_in'))
        => diff_x' = diff_x + ( Pixel(last_in'[3], abs_max_x, fb_width)
                              - Pixel(last_in[3], abs_max_x, fb_width) ) ]_vars

IsTouch(ev, value) == ev[1] = EV_KEY /\ ev[2] = BTN_TOUCH /\ ev[3] = value

\* C17 as claimed: a BTN_TOUCH event with value 1 increments mt_count, one
\* with value 0 decrements it unless it is 0; the gesture fields are reset
\* exactly when mt_count is 0 after the event, so not by a down event; and
\* mt_count is never negative.
C17_ContactsCounted ==
  /\ [](mt_count >= 0)
  /\ [][ (last_in' # last_in /\ IsTouch(last_in', 1))
          => /\ mt_count' = mt_count + 1
             /\ UNCHANGED <<diff_x, diff_y, old_x, old_y, touch_x, touch_y>>
        ]_vars
  /\ [][ (last_in' # last_in /\ IsTouch(last_in', 0))
          => /\ mt_count' = IF mt_count > 0 THEN mt_count - 1 ELSE 0
             /\ IF mt_count' = 0
                THEN /\ diff_x' = 0 /\ diff_y' = 0
                     /\ old_x' = 0 /\ old_y' = 0
                     /\ touch_x' = 0 /\ touch_y' = 0
                ELSE UNCHANGED <<diff_x, diff_y, old_x, old_y, touch_x,
                                 touch_y>> ]_vars

\* The step in which input_callback is entered with the event last_in'.
Enters == ev_pc = "idle" /\ timers \subseteq timers'

\* C16 as claimed: every input event whose type is not EV_REL, an EV_SYN
\* event included, leaves rel_sum at 0.
C16_NonRelEventResets ==
  [][ (Enters /\ last_in'[1] # EV_REL) => rel_sum' = 0 ]_vars

\* C16 amended: an input event whose type is neither EV_REL nor EV_SYN
\* leaves rel_sum at 0; an EV_SYN event and an EV_REL event with a code
\* other than REL_Y leave it as it is; a REL_Y event adds its value, and
\* when the sum is then beyond the threshold the down or the up key is
\* pressed and released and the release leaves rel_sum at 0.
C16_NonRelNonSynEventResets ==
  /\ [][ Enters =>
          LET type == last_in'[1]
              code == last_in'[2]
              value == last_in'[3]
          IN /\ type \notin {EV_REL, EV_SYN} => rel_sum' = 0
             /\ type = EV_SYN => rel_sum' = rel_sum
             /\ (type = EV_REL /\ code # REL_Y) => rel_sum' = rel_sum
             /\ (type = EV_REL /\ code = REL_Y)
                  => /\ rel_sum' = rel_sum + value
                     /\ IF rel_sum' > REL_THRESHOLD
                        THEN ev_pc' = "release" /\ last_ev' = <<KEY_DOWN, 1>>
                        ELSE IF rel_sum' < -REL_THRESHOLD
                        THEN ev_pc' = "release" /\ last_ev' = <<KEY_UP, 1>>
                        ELSE ev_pc' = "idle" /\ last_ev' = last_ev
             /\ type # EV_REL => ev_pc' = "idle" ]_vars
  /\ [][ (ev_pc = "release" /\ ev_pc' = "idle")
          => /\ rel_sum' = 0
             /\ last_ev' = <<last_ev[1], 0>>
             /\ last_ev[1] \in {KEY_DOWN, KEY_UP} ]_vars
  /\ [](ev_pc = "release" => Abs(rel_sum) > REL_THRESHOLD)

\* C16 witness: the down key has been faked, which left rel_sum at 0, and
\* REL_Y events have since brought the sum to the threshold, where the
\* SYN_REPORT just handled has left it.
C16_Witness ==
  /\ ev_pc = "idle"
  /\ last_in = <<EV_SYN, SYN_REPORT, 0>>
  /\ rel_sum = REL_THRESHOLD
  /\ last_ev = <<KEY_DOWN, 0>>

====
